---- MODULE Spec2Model ----
(***************************************************************************)
(* The admin router of genx-backend (src/routes/admin.js): nine handlers   *)
(* over two collections, Event and User.  Every handler is an async        *)
(* function: the code up to its first await runs when the request is       *)
(* received, and each later step is the resolution (or rejection) of the   *)
(* store call it awaits, followed by the code up to the next await.        *)
(* Requests of different clients interleave at the awaits.                 *)
(***************************************************************************)
EXTENDS Integers, Sequences, FiniteSets

\* ------------------------------------------------------------ bounds
MaxReqs == 2        \* requests received in one behaviour
MaxClock == 1       \* the wall clock runs 0..MaxClock
MaxEvents == 2      \* event ids ever allocated (stored at start + created)
MaxUsers == 1       \* users in the store
MaxRegs == 2        \* registrations of a stored event
MaxListed == 2      \* users in the store of the user-listing behaviours

Reqs == 1..MaxReqs
EventIds == 1..MaxEvents
UserIds == 1..MaxUsers
Dates == 0..MaxClock
Titles == {"t0", "t1"}

\* ------------------------------------------------------------ state
VARIABLES
  events,     \* the Event collection: a set of documents
  users,      \* the User collection: a set of documents
  clock,      \* what new Date() returns
  nextId,     \* the next _id a new Event document gets
  writes,     \* history: the number of writes the store has applied
  created,    \* history: the ids of the events POST /events has saved
  kind,       \* per request: the route it was received on ("none" before)
  args,       \* per request: req.params, req.body and req.query
  pc,         \* per request: the await the handler stands at
  local,      \* per request: the handler's local constants
  issued,     \* per request: the number of store calls issued so far
  failed,     \* per request: a store call of it has rejected (or it threw)
  responses   \* per request: the responses sent on res, in order

storeVars == <<events, users, clock, nextId, writes, created>>
reqVars == <<kind, args, pc, local, issued, failed, responses>>
vars == <<events, users, clock, nextId, writes, created,
          kind, args, pc, local, issued, failed, responses>>

\* ------------------------------------------------------------ values
\* A date of a request body: a timestamp, or a value new Date() cannot parse.
DateInput(t) == [valid |-> TRUE, t |-> t]
InvalidDate == [valid |-> FALSE, t |-> 0]
DateInputs == {DateInput(t) : t \in Dates} \cup {InvalidDate}

\* The registrations array of an event document (has = FALSE: the field is
\* absent from the document).
Regs(l) == [has |-> TRUE, list |-> l]
NoRegs == [has |-> FALSE, list |-> <<>>]
\* The default of the registrations path of a new Event document.
DefaultRegistrations == Regs(<<>>)

Roles == {"user", "admin", "superadmin"}
\* req.body.role: a valid role, other strings, or no role at all.
RoleInputs == Roles \cup {"Admin", "undefined"}

NoArgs == [id |-> 0, title |-> "", date |-> InvalidDate, role |-> "",
           search |-> <<>>, page |-> [has |-> FALSE, str |-> <<>>],
           limit |-> [has |-> FALSE, str |-> <<>>]]
NoLocal == [now |-> 0, status |-> "", newId |-> 0, ver |-> 0, stable |-> TRUE,
            snapshot |-> <<>>, results |-> <<>>, pending |-> {},
            settled |-> FALSE, existed |-> <<>>, returned |-> <<>>,
            order |-> <<>>,
            total |-> 0, totalMembers |-> 0, upcomingEvents |-> 0]

\* ------------------------------------------------------------ store queries
\* Model.findById(id): the document, as a set of at most one.
FindById(coll, id) == {d \in coll : d.id = id}

\* The number of registrations of the event with that id.
CountRegistrations(coll, id) ==
  IF \E d \in coll : d.id = id
    THEN Len((CHOOSE d \in coll : d.id = id).registrations.list)
    ELSE 0

\* Event.countDocuments({ _id: id })
CountById(coll, id) == Cardinality({d \in coll : d.id = id})

\* .sort({ key: -1 }): the orders of a result set a descending sort may return
\* (documents with equal keys come in either order).
Orderings(S) ==
  {s \in [1..Cardinality(S) -> S] : \A i, j \in DOMAIN s : i # j => s[i] # s[j]}
SortDateDesc(S) ==
  {s \in Orderings(S) : \A i, j \in DOMAIN s : i < j => s[i].date >= s[j].date}
SortCreatedDesc(S) ==
  {s \in Orderings(S) :
     \A i, j \in DOMAIN s : i < j => s[i].createdAt >= s[j].createdAt}

\* new Date(date) > new Date(): false for an unparsable date (NaN).
DateGT(date, now) == date.valid /\ date.t > now

\* ------------------------------------------------------------ responses
Response(status, body) == [status |-> status, body |-> body]
Message(m) == [message |-> m]
Failure(m) == [success |-> FALSE, message |-> m]
FailureError(m) == [success |-> FALSE, message |-> m, error |-> "err.message"]

\* The body of the 500 each handler's catch block sends.
ErrorBody(k) ==
  CASE k = "PUT /users/:id/role" -> FailureError("Error updating user role")
    [] k = "GET /events/all" -> FailureError("Error fetching events")
    [] k = "GET /events/:id/registrations" ->
         FailureError("Error fetching event registrations")
    [] OTHER -> Message("Server error")

\* ------------------------------------------------------------ documents
EventDoc(id, title, date, status, regs) ==
  [id |-> id, title |-> title, date |-> date, status |-> status,
   registrations |-> regs]
UserDoc(id, name, email, reg, role) ==
  [id |-> id, name |-> name, email |-> email, registration_no |-> reg,
   role |-> role, password |-> "hash", createdAt |-> id]

\* .select('-password')
WithoutPassword(u) == [f \in (DOMAIN u) \ {"password"} |-> u[f]]

\* populate('registrations.user', select: name email registration_no ... role)
Projection(u) ==
  [id |-> u.id, name |-> u.name, email |-> u.email,
   registration_no |-> u.registration_no, role |-> u.role]
Populate(regs) ==
  [has |-> regs.has,
   list |-> [i \in DOMAIN regs.list |->
               {Projection(u) : u \in FindById(users, regs.list[i])}]]

\* ------------------------------------------------------------ steps shared
\* A request arrives on route k: the handler starts with req = a.  Requests
\* are numbered in the order they arrive.
Receive(r, k, a) ==
  /\ pc[r] = "idle"
  /\ r > 1 => pc[r - 1] # "idle"
  /\ kind' = [kind EXCEPT ![r] = k]
  /\ args' = [args EXCEPT ![r] = a]

\* res.status(s).json(body), after which the handler is finished.
Send(r, resp) ==
  /\ responses' = [responses EXCEPT ![r] = Append(@, resp)]
  /\ pc' = [pc EXCEPT ![r] = "done"]

\* return res.status(404).json(...)
SendNotFound(r, resp) == Send(r, resp)

\* The awaits of the handlers that await one store call at a time.
SequentialAwaits ==
  {"find", "save", "update", "delete", "count", "findUsers", "role",
   "members", "upcoming", "total", "findAll", "findOne"}

\* A catch block that calls the store again instead of answering.
CatchAndRetry(r) ==
  /\ failed' = [failed EXCEPT ![r] = TRUE]
  /\ issued' = [issued EXCEPT ![r] = @ + 1]
  /\ UNCHANGED <<pc, responses>>

\* catch (error) { res.status(500).json(...) }: no retry, no further call.
Catch(r) ==
  /\ failed' = [failed EXCEPT ![r] = TRUE]
  /\ Send(r, Response(500, ErrorBody(kind[r])))
  /\ UNCHANGED issued

\* The store call a handler awaits rejects.
StoreRejects(r) ==
  /\ pc[r] \in SequentialAwaits
  /\ Catch(r)
  /\ UNCHANGED <<storeVars, kind, args, local>>

\* The clock advances.
Tick ==
  /\ clock < MaxClock
  /\ clock' = clock + 1
  /\ UNCHANGED <<events, users, nextId, writes, created, reqVars>>

\* ------------------------------------------------------------ GET /events
\* The await of Event.find().sort({ date: -1 }) is reached.
GetEventsReceive(r) ==
  /\ Receive(r, "GET /events", NoArgs)
  /\ pc' = [pc EXCEPT ![r] = "find"]
  /\ issued' = [issued EXCEPT ![r] = @ + 1]
  /\ UNCHANGED <<storeVars, local, failed, responses>>

\* An array filled in the order the promises resolve.
PlaceResultAsResolved(results, i, n) ==
  LET k == CHOOSE k \in DOMAIN results :
             ~results[k].done /\ \A j \in 1..(k - 1) : results[j].done
  IN  [results EXCEPT ![k] = [done |-> TRUE, n |-> n]]

\* Promise.all keeps each value at the index of its promise.
PlaceResult(results, i, n) == [results EXCEPT ![i] = [done |-> TRUE, n |-> n]]

\* { ...event.toObject(), registrations }: the count replaces the array.
EventsWithRegistrations(snapshot, results) ==
  [i \in DOMAIN snapshot |->
     [id |-> snapshot[i].id, title |-> snapshot[i].title,
      date |-> snapshot[i].date, status |-> snapshot[i].status,
      registrations |-> results[i].n]]

\* The find resolves; events.map starts one count query per event, all in the
\* same turn, and Promise.all waits for them ([] resolves at once).
GetEventsFind(r) ==
  /\ pc[r] = "find" /\ kind[r] = "GET /events"
  /\ \E s \in SortDateDesc(events) :
       /\ local' = [local EXCEPT ![r].snapshot = s,
                      ![r].results = [i \in DOMAIN s |-> [done |-> FALSE, n |-> 0]],
                      ![r].existed = [i \in DOMAIN s |-> FALSE],
                      ![r].returned = [i \in DOMAIN s |-> 0],
                      ![r].pending = DOMAIN s,
                      ![r].settled = (DOMAIN s = {})]
       /\ issued' = [issued EXCEPT ![r] = @ + Len(s)]
       /\ IF DOMAIN s = {}
            THEN Send(r, Response(200, <<>>))
            ELSE /\ pc' = [pc EXCEPT ![r] = "counts"]
                 /\ UNCHANGED responses
  /\ UNCHANGED <<storeVars, kind, args, failed>>

\* The count query of the event at index i resolves; the last one to resolve
\* resolves Promise.all, unless it has rejected already.
GetEventsCount(r, i) ==
  /\ pc[r] = "counts"
  /\ i \in local[r].pending
  /\ LET l == local[r]
         id == l.snapshot[i].id
         res == PlaceResult(l.results, i, CountById(events, id))
         pend == l.pending \ {i}
     IN  /\ local' = [local EXCEPT ![r].results = res,
                        ![r].pending = pend,
                        ![r].existed = [l.existed EXCEPT ![i] = FindById(events, id) # {}],
                        ![r].returned = [l.returned EXCEPT ![i] = CountById(events, id)],
                        ![r].order = Append(l.order, i),
                        ![r].settled = l.settled \/ pend = {}]
         /\ IF pend = {} /\ ~l.settled
              THEN Send(r, Response(200, EventsWithRegistrations(l.snapshot, res)))
              ELSE /\ pc' = [pc EXCEPT ![r] = IF pend = {} THEN "done" ELSE "counts"]
                   /\ UNCHANGED responses
  /\ UNCHANGED <<storeVars, kind, args, issued, failed>>

\* The count query of the event at index i rejects: the first rejection rejects
\* Promise.all and the catch block answers; the other queries stay under way.
GetEventsCountRejects(r, i) ==
  /\ pc[r] = "counts"
  /\ i \in local[r].pending
  /\ LET l == local[r]
         pend == l.pending \ {i}
     IN  /\ local' = [local EXCEPT ![r].pending = pend,
                        ![r].order = Append(l.order, i),
                        ![r].settled = TRUE]
         /\ failed' = [failed EXCEPT ![r] = TRUE]
         /\ responses' = [responses EXCEPT ![r] =
              IF l.settled THEN @
              ELSE Append(@, Response(500, ErrorBody(kind[r])))]
         /\ pc' = [pc EXCEPT ![r] = IF pend = {} THEN "done" ELSE "counts"]
  /\ UNCHANGED <<storeVars, kind, args, issued>>

\* ------------------------------------------------------------ POST /events
\* The comparison the wrong way round.
StatusOfReversed(date, now) ==
  IF date.valid /\ date.t < now THEN "upcoming" ELSE "past"

\* status: new Date(date) > new Date() ? 'upcoming' : 'past'
StatusOf(date, now) == IF DateGT(date, now) THEN "upcoming" ELSE "past"

\* new Event({...}) and the call of event.save().
PostEventsReceive(r, title, date) ==
  /\ nextId <= MaxEvents
  /\ Receive(r, "POST /events", [NoArgs EXCEPT !.title = title, !.date = date])
  /\ local' = [local EXCEPT ![r].now = clock,
                 ![r].status = StatusOf(date, clock),
                 ![r].newId = nextId]
  /\ nextId' = nextId + 1
  /\ pc' = [pc EXCEPT ![r] = "save"]
  /\ issued' = [issued EXCEPT ![r] = @ + 1]
  /\ UNCHANGED <<events, users, clock, writes, created, failed, responses>>

\* The save resolves (a date that cannot be cast only rejects).
PostEventsSave(r) ==
  /\ pc[r] = "save"
  /\ args[r].date.valid
  /\ LET event == EventDoc(local[r].newId, args[r].title, args[r].date.t,
                           local[r].status, DefaultRegistrations)
     IN  /\ events' = events \cup {event}
         /\ created' = created \cup {event.id}
         /\ Send(r, Response(201, event))
  /\ writes' = writes + 1
  /\ UNCHANGED <<users, clock, nextId, kind, args, local, issued, failed>>

\* ------------------------------------------------------------ PUT /events/:id
\* The call of Event.findByIdAndUpdate with the new fields and status.
PutEventsReceive(r, id, title, date) ==
  /\ Receive(r, "PUT /events/:id",
             [NoArgs EXCEPT !.id = id, !.title = title, !.date = date])
  /\ local' = [local EXCEPT ![r].now = clock,
                 ![r].status = StatusOf(date, clock)]
  /\ pc' = [pc EXCEPT ![r] = "update"]
  /\ issued' = [issued EXCEPT ![r] = @ + 1]
  /\ UNCHANGED <<storeVars, failed, responses>>

\* The update resolves: null for an id that matches nothing, else the event
\* as updated ({ new: true }).
PutEventsUpdate(r) ==
  /\ pc[r] = "update" /\ kind[r] = "PUT /events/:id"
  /\ args[r].date.valid
  /\ \/ /\ FindById(events, args[r].id) = {}
        /\ SendNotFound(r, Response(404, Message("Event not found")))
        /\ UNCHANGED <<events, writes>>
     \/ \E old \in FindById(events, args[r].id) :
          LET event == EventDoc(old.id, args[r].title, args[r].date.t,
                                local[r].status, old.registrations)
          IN  /\ events' = (events \ {old}) \cup {event}
              /\ writes' = writes + 1
              /\ Send(r, Response(200, event))
  /\ UNCHANGED <<users, clock, nextId, created, kind, args, local, issued, failed>>

\* ------------------------------------------------------------ DELETE /events/:id
DeleteEventsReceive(r, id) ==
  /\ Receive(r, "DELETE /events/:id", [NoArgs EXCEPT !.id = id])
  /\ pc' = [pc EXCEPT ![r] = "delete"]
  /\ issued' = [issued EXCEPT ![r] = @ + 1]
  /\ UNCHANGED <<storeVars, local, failed, responses>>

\* The handler without its if (!event) check.
DeleteEventsDeleteUnchecked(r) ==
  /\ pc[r] = "delete"
  /\ events' = events \ FindById(events, args[r].id)
  /\ writes' = writes + Cardinality(FindById(events, args[r].id))
  /\ Send(r, Response(200, Message("Event deleted successfully")))
  /\ UNCHANGED <<users, clock, nextId, created, kind, args, local, issued, failed>>

\* Event.findByIdAndDelete resolves: null, or the event it removed.
DeleteEventsDelete(r) ==
  /\ pc[r] = "delete"
  /\ \/ /\ FindById(events, args[r].id) = {}
        /\ SendNotFound(r, Response(404, Message("Event not found")))
        /\ UNCHANGED <<events, writes>>
     \/ \E event \in FindById(events, args[r].id) :
          /\ events' = events \ {event}
          /\ writes' = writes + 1
          /\ Send(r, Response(200, Message("Event deleted successfully")))
  /\ UNCHANGED <<users, clock, nextId, created, kind, args, local, issued, failed>>

\* ------------------------------------------------------------ GET /users
DefaultPage == 1
DefaultLimit == 10

\* A query-string value: absent, or a string (a sequence of characters).
Absent == [has |-> FALSE, str |-> <<>>]
Given(str) == [has |-> TRUE, str |-> str]

DigitValue(c) ==
  CASE c = "0" -> 0 [] c = "1" -> 1 [] c = "2" -> 2 [] c = "3" -> 3
    [] c = "4" -> 4 [] c = "5" -> 5 [] c = "6" -> 6 [] c = "7" -> 7
    [] c = "8" -> 8 [] c = "9" -> 9
IsDigit(c) == c \in {"0", "1", "2", "3", "4", "5", "6", "7", "8", "9"}

\* The number a string of decimal digits is coerced to by - and * and /.
RECURSIVE ToNumber(_)
ToNumber(str) ==
  IF str = <<>> THEN 0
  ELSE 10 * ToNumber(SubSeq(str, 1, Len(str) - 1)) + DigitValue(str[Len(str)])

\* parseInt(str): the value of the longest prefix of digits.
RECURSIVE DigitPrefix(_)
DigitPrefix(str) ==
  IF str = <<>> \/ ~IsDigit(Head(str)) THEN <<>>
  ELSE <<Head(str)>> \o DigitPrefix(Tail(str))
ParseInt(str) == ToNumber(DigitPrefix(str))

\* const { search, page = 1, limit = 10 } = req.query, as numbers where the
\* code uses them as numbers.
PageNumber(page) == IF page.has THEN ToNumber(page.str) ELSE DefaultPage
LimitNumber(limit) == IF limit.has THEN ToNumber(limit.str) ELSE DefaultLimit
\* page * limit: the page itself skipped.
SkipOfPageTimesLimit(page, limit) == PageNumber(page) * LimitNumber(limit)
\* (page - 1) * limit
SkipOf(page, limit) == (PageNumber(page) - 1) * LimitNumber(limit)
\* parseInt(limit)
LimitOf(limit) == IF limit.has THEN ParseInt(limit.str) ELSE DefaultLimit
\* parseInt(page)
PageOf(page) == IF page.has THEN ParseInt(page.str) ELSE DefaultPage
\* Math.ceil(total / limit): not finite (JSON null) when limit is 0.
TotalPages(total, limit) ==
  IF LimitNumber(limit) = 0 THEN [finite |-> FALSE, n |-> 0]
  ELSE [finite |-> TRUE,
        n |-> (total + LimitNumber(limit) - 1) \div LimitNumber(limit)]

\* $options: 'i'
Lower(c) == CASE c = "A" -> "a" [] c = "B" -> "b" [] OTHER -> c

\* { $regex: search, $options: 'i' }: search is the pattern as it stands, so
\* "." stands for any character; the pattern matches anywhere in the text.
MatchesAt(pattern, text, k) ==
  /\ k + Len(pattern) - 1 <= Len(text)
  /\ \A i \in 1..Len(pattern) :
       pattern[i] = "." \/ Lower(pattern[i]) = Lower(text[k + i - 1])
RegexMatch(pattern, text) == \E k \in 1..Len(text) : MatchesAt(pattern, text, k)
\* A pattern with an unclosed group is no regular expression: the query rejects.
ValidPattern(pattern) == \A i \in 1..Len(pattern) : pattern[i] # "("

\* if (search) query.$or = [name, email, registration_no]
Matching(coll, search) ==
  IF search = <<>> THEN coll
  ELSE {u \in coll : \/ RegexMatch(search, u.name)
                     \/ RegexMatch(search, u.email)
                     \/ RegexMatch(search, u.registration_no)}

\* .skip(skip).limit(limit) of a sorted result (limit 0: no limit).
Page(sorted, skip, limit) ==
  LET to == IF limit = 0 \/ skip + limit > Len(sorted) THEN Len(sorted)
            ELSE skip + limit
  IN  SubSeq(sorted, skip + 1, to)

\* The call of User.countDocuments(query).
GetUsersReceive(r, search, page, limit) ==
  /\ Receive(r, "GET /users",
             [NoArgs EXCEPT !.search = search, !.page = page, !.limit = limit])
  /\ pc' = [pc EXCEPT ![r] = "count"]
  /\ issued' = [issued EXCEPT ![r] = @ + 1]
  /\ UNCHANGED <<storeVars, local, failed, responses>>

\* The count resolves, and User.find(query)...limit() is called.
GetUsersCount(r) ==
  /\ pc[r] = "count"
  /\ ValidPattern(args[r].search)
  /\ local' = [local EXCEPT ![r].total =
                 Cardinality(Matching(users, args[r].search)),
                 ![r].ver = writes]
  /\ pc' = [pc EXCEPT ![r] = "findUsers"]
  /\ issued' = [issued EXCEPT ![r] = @ + 1]
  /\ UNCHANGED <<storeVars, kind, args, failed, responses>>

\* The find resolves (a negative skip only rejects).
GetUsersFind(r) ==
  /\ pc[r] = "findUsers"
  /\ SkipOf(args[r].page, args[r].limit) >= 0
  /\ \E s \in SortCreatedDesc(Matching(users, args[r].search)) :
       LET found == Page(s, SkipOf(args[r].page, args[r].limit),
                         LimitOf(args[r].limit))
       IN  Send(r, Response(200,
             [users |-> [i \in DOMAIN found |-> WithoutPassword(found[i])],
              total |-> local[r].total,
              page |-> PageOf(args[r].page),
              totalPages |-> TotalPages(local[r].total, args[r].limit)]))
  /\ local' = [local EXCEPT ![r].stable = (local[r].ver = writes)]
  /\ UNCHANGED <<storeVars, kind, args, issued, failed>>

\* ------------------------------------------------------------ PUT /users/:id/role
\* A check that a role is given, whatever it is.
ValidRoleAnyGiven(role) == role # "undefined"

\* ['user', 'admin', 'superadmin'].includes(role)
ValidRole(role) == role \in Roles

\* The role check, and for a valid role the call of User.findByIdAndUpdate.
PutRoleReceive(r, id, role) ==
  /\ Receive(r, "PUT /users/:id/role", [NoArgs EXCEPT !.id = id, !.role = role])
  /\ \/ /\ ~ValidRole(role)
        /\ Send(r, Response(400, Failure("Invalid role specified")))
        /\ UNCHANGED issued
     \/ /\ ValidRole(role)
        /\ pc' = [pc EXCEPT ![r] = "role"]
        /\ issued' = [issued EXCEPT ![r] = @ + 1]
        /\ UNCHANGED responses
  /\ UNCHANGED <<storeVars, local, failed>>

\* The update resolves: null, or the user as updated, without its password.
PutRoleUpdate(r) ==
  /\ pc[r] = "role"
  /\ \/ /\ FindById(users, args[r].id) = {}
        /\ SendNotFound(r, Response(404, Failure("User not found")))
        /\ UNCHANGED <<users, writes>>
     \/ \E old \in FindById(users, args[r].id) :
          LET user == [old EXCEPT !.role = args[r].role]
          IN  /\ users' = (users \ {old}) \cup {user}
              /\ writes' = writes + 1
              /\ Send(r, Response(200,
                   [success |-> TRUE, data |-> WithoutPassword(user)]))
  /\ UNCHANGED <<events, clock, nextId, created, kind, args, local, issued, failed>>

\* ------------------------------------------------------------ GET /stats
\* $gte in place of $gt.
CountFromNow(coll, now) == Cardinality({e \in coll : e.date >= now})

\* Event.countDocuments({ date: { $gt: now } })
CountUpcoming(coll, now) == Cardinality({e \in coll : e.date > now})

\* The call of User.countDocuments().
GetStatsReceive(r) ==
  /\ Receive(r, "GET /stats", NoArgs)
  /\ pc' = [pc EXCEPT ![r] = "members"]
  /\ issued' = [issued EXCEPT ![r] = @ + 1]
  /\ UNCHANGED <<storeVars, local, failed, responses>>

\* The user count resolves; new Date() is read and the count of the events
\* after it is called.
GetStatsMembers(r) ==
  /\ pc[r] = "members"
  /\ local' = [local EXCEPT ![r].totalMembers = Cardinality(users),
                 ![r].now = clock,
                 ![r].ver = writes]
  /\ pc' = [pc EXCEPT ![r] = "upcoming"]
  /\ issued' = [issued EXCEPT ![r] = @ + 1]
  /\ UNCHANGED <<storeVars, kind, args, failed, responses>>

\* The count of upcoming events resolves; Event.countDocuments() is called.
GetStatsUpcoming(r) ==
  /\ pc[r] = "upcoming"
  /\ local' = [local EXCEPT ![r].upcomingEvents =
                 CountUpcoming(events, local[r].now)]
  /\ pc' = [pc EXCEPT ![r] = "total"]
  /\ issued' = [issued EXCEPT ![r] = @ + 1]
  /\ UNCHANGED <<storeVars, kind, args, failed, responses>>

\* The count of all events resolves, and the three counts are sent.
GetStatsTotal(r) ==
  /\ pc[r] = "total"
  /\ Send(r, Response(200,
       [totalMembers |-> local[r].totalMembers,
        totalEvents |-> Cardinality(events),
        upcomingEvents |-> local[r].upcomingEvents]))
  /\ local' = [local EXCEPT ![r].stable = (local[r].ver = writes)]
  /\ UNCHANGED <<storeVars, kind, args, issued, failed>>

\* ------------------------------------------------------------ GET /events/all
\* The count of GET /events: 1 for every event found.
RegistrationCountOfFound(regs) == 1

\* event.registrations ? event.registrations.length : 0
RegistrationCount(regs) == IF regs.has THEN Len(regs.list) ELSE 0

\* { ...event.toObject(), registrationCount }
TransformedEvents(found) ==
  [i \in DOMAIN found |->
     [id |-> found[i].id, title |-> found[i].title, date |-> found[i].date,
      status |-> found[i].status,
      registrations |-> Populate(found[i].registrations),
      registrationCount |-> RegistrationCount(found[i].registrations)]]

\* The call of Event.find().populate(...).sort({ date: -1 }).
GetAllReceive(r) ==
  /\ Receive(r, "GET /events/all", NoArgs)
  /\ pc' = [pc EXCEPT ![r] = "findAll"]
  /\ issued' = [issued EXCEPT ![r] = @ + 1]
  /\ UNCHANGED <<storeVars, local, failed, responses>>

GetAllFind(r) ==
  /\ pc[r] = "findAll"
  /\ \E s \in SortDateDesc(events) :
       Send(r, Response(200,
         [success |-> TRUE, count |-> Len(s), data |-> TransformedEvents(s)]))
  /\ UNCHANGED <<storeVars, kind, args, local, issued, failed>>

\* ------------------------------------------------------------ GET /events/:id/registrations
\* The call of Event.findById(id).populate(...).
GetRegistrationsReceive(r, id) ==
  /\ Receive(r, "GET /events/:id/registrations", [NoArgs EXCEPT !.id = id])
  /\ pc' = [pc EXCEPT ![r] = "findOne"]
  /\ issued' = [issued EXCEPT ![r] = @ + 1]
  /\ UNCHANGED <<storeVars, local, failed, responses>>

\* The find resolves: null, or the event; event.registrations.length throws
\* for an event without the array, which the catch block answers.
GetRegistrationsFind(r) ==
  /\ pc[r] = "findOne"
  /\ \/ /\ FindById(events, args[r].id) = {}
        /\ SendNotFound(r, Response(404, Failure("Event not found")))
        /\ UNCHANGED <<failed, issued>>
     \/ \E event \in FindById(events, args[r].id) :
          /\ event.registrations.has
          /\ Send(r, Response(200,
               [success |-> TRUE, count |-> Len(event.registrations.list),
                data |-> Populate(event.registrations).list]))
          /\ UNCHANGED <<failed, issued>>
     \/ \E event \in FindById(events, args[r].id) :
          /\ ~event.registrations.has
          /\ Catch(r)
  /\ UNCHANGED <<storeVars, kind, args, local>>

\* ------------------------------------------------------------ behaviours
\* The users of the store: the router creates and deletes none.
StoredUsers ==
  {UserDoc(i, <<"a", "b">>, <<"B", ".">>, <<"A">>,
           IF i = 1 THEN "admin" ELSE "user") : i \in UserIds}

\* What a stored event may look like at start: a past event of before the
\* registrations array existed, and upcoming events with 1 and with MaxRegs
\* registrations.
StoredShapes ==
  {[date |-> 0, registrations |-> NoRegs],
   [date |-> MaxClock, registrations |-> Regs(<<1>>)],
   [date |-> MaxClock, registrations |-> Regs([i \in 1..MaxRegs |-> i])]}

\* The event collections the router may find at start: events 1..n, each
\* with the status its date gave it when it was written, at clock 0.
StoredEvents ==
  UNION {{ {EventDoc(i, "t0", f[i].date, StatusOf(DateInput(f[i].date), 0),
                     f[i].registrations) : i \in 1..n} :
            f \in [1..n -> StoredShapes] }
         : n \in 0..MaxEvents}

InitRequests ==
  /\ kind = [r \in Reqs |-> "none"]
  /\ args = [r \in Reqs |-> NoArgs]
  /\ pc = [r \in Reqs |-> "idle"]
  /\ local = [r \in Reqs |-> NoLocal]
  /\ issued = [r \in Reqs |-> 0]
  /\ failed = [r \in Reqs |-> FALSE]
  /\ responses = [r \in Reqs |-> <<>>]

Init ==
  /\ events \in StoredEvents
  /\ nextId = Cardinality(events) + 1
  /\ users = StoredUsers
  /\ clock = 0
  /\ writes = 0
  /\ created = {}
  /\ InitRequests

Next ==
  \/ Tick
  \/ \E r \in Reqs :
       \/ StoreRejects(r)
       \/ GetEventsReceive(r)
       \/ GetEventsFind(r)
       \/ \E i \in EventIds : GetEventsCount(r, i)
       \/ \E i \in EventIds : GetEventsCountRejects(r, i)
       \/ \E t \in Titles, d \in DateInputs : PostEventsReceive(r, t, d)
       \/ PostEventsSave(r)
       \/ \E id \in EventIds, t \in Titles, d \in DateInputs :
            PutEventsReceive(r, id, t, d)
       \/ PutEventsUpdate(r)
       \/ \E id \in EventIds : DeleteEventsReceive(r, id)
       \/ DeleteEventsDelete(r)
       \/ \E q \in {<<>>, <<"a">>} : GetUsersReceive(r, q, Absent, Absent)
       \/ GetUsersCount(r)
       \/ GetUsersFind(r)
       \/ \E id \in 1..(MaxUsers + 1), role \in RoleInputs :
            PutRoleReceive(r, id, role)
       \/ PutRoleUpdate(r)
       \/ GetStatsReceive(r)
       \/ GetStatsMembers(r)
       \/ GetStatsUpcoming(r)
       \/ GetStatsTotal(r)
       \/ GetAllReceive(r)
       \/ GetAllFind(r)
       \/ \E id \in EventIds : GetRegistrationsReceive(r, id)
       \/ GetRegistrationsFind(r)

Spec == Init /\ [][Next]_vars

\* ------------------------------------------------------------ user listing
\* The behaviours of one GET /users request over a store of up to MaxListed
\* users, whose three searched fields are drawn from FieldStrings.
FieldStrings == {<<"a">>, <<"B", ".">>}
SearchInputs ==
  {<<>>, <<"a">>, <<"b">>, <<"A">>, <<".">>, <<"b", ".">>, <<".", ".">>, <<"(">>}
PageInputs == {Absent, Given(<<"1">>), Given(<<"2">>), Given(<<"3">>), Given(<<"0">>)}
LimitInputs ==
  {Absent, Given(<<"1">>), Given(<<"2">>), Given(<<"0", "2">>), Given(<<"0">>)}

ListedUsers ==
  UNION {{ {UserDoc(i, f[i][1], f[i][2], f[i][3], "user") : i \in 1..n} :
            f \in [1..n -> FieldStrings \X FieldStrings \X FieldStrings] }
         : n \in 0..MaxListed}

InitUsers ==
  /\ events = {}
  /\ nextId = 1
  /\ users \in ListedUsers
  /\ clock = 0
  /\ writes = 0
  /\ created = {}
  /\ InitRequests

NextUsers ==
  \/ \E q \in SearchInputs, p \in PageInputs, l \in LimitInputs :
       GetUsersReceive(1, q, p, l)
  \/ GetUsersCount(1)
  \/ GetUsersFind(1)
  \/ StoreRejects(1)

SpecUsers == InitUsers /\ [][NextUsers]_vars

\* ============================================================ properties
\* The response request r has received, when it has received exactly one.
Answered(r) == Len(responses[r]) = 1
Answer(r) == responses[r][1]
\* Request r is answered in this step.
AnsweredNow(r) == responses[r] = <<>> /\ responses'[r] # <<>>

\* C1: PUT /users/:id/role with a role outside {user, admin, superadmin}
\* (or none) is answered 400 {success: false, message} without any store call,
\* the store unchanged; with a role of the set and the id of a stored user,
\* when the update resolves, that user's stored role becomes the role and the
\* answer is 200 {success: true, data}, data being the user without password;
\* and every stored user's role is always one of the three.
C1_RoleUpdate ==
  [][ /\ \A u \in users' : u.role \in Roles
      /\ \A r \in Reqs :
           (kind'[r] = "PUT /users/:id/role" /\ AnsweredNow(r)) =>
             LET role == args'[r].role
                 id == args'[r].id
                 resp == responses'[r][1]
             IN  /\ role \notin Roles =>
                      /\ responses'[r] = <<resp>>
                      /\ resp.status = 400
                      /\ resp.body.success = FALSE
                      /\ "message" \in DOMAIN resp.body
                      /\ issued'[r] = 0
                      /\ users' = users /\ events' = events
                 /\ (role \in Roles /\ ~failed'[r] /\ FindById(users, id) # {}) =>
                      /\ \E u \in users' : u.id = id /\ u.role = role
                      /\ \A u \in users' : u.id # id => u \in users
                      /\ Cardinality(users') = Cardinality(users)
                      /\ responses'[r] = <<resp>>
                      /\ resp.status = 200
                      /\ resp.body.success = TRUE
                      /\ "password" \notin DOMAIN resp.body.data
                      /\ \E u \in users' : /\ u.id = id
                                           /\ resp.body.data = WithoutPassword(u)
    ]_vars

\* A rejected role and an accepted one: request 1 was answered 400, and
\* request 2 made user 1, an admin at start, a superadmin.
C1_Witness ==
  \E r1, r2 \in Reqs :
    /\ kind[r1] = "PUT /users/:id/role" /\ Answered(r1)
    /\ Answer(r1).status = 400 /\ args[r1].role = "Admin"
    /\ kind[r2] = "PUT /users/:id/role" /\ Answered(r2)
    /\ Answer(r2).status = 200 /\ args[r2].role = "superadmin"
    /\ \E u \in users : u.id = args[r2].id /\ u.role = "superadmin"

\* C2: an event written by POST /events, or by a PUT /events/:id that matches
\* an event, is stored with status "upcoming" when the date of the request is
\* later than the clock the handler read for the write and "past" when it is
\* earlier; two writes with the same date and clock store the same status,
\* whatever the title and the status before.
Written(r) ==
  /\ kind[r] \in {"POST /events", "PUT /events/:id"}
  /\ Answered(r)
  /\ Answer(r).status \in {200, 201}
C2_StatusFromDate ==
  [][ /\ \A r \in Reqs :
           (kind[r] \in {"POST /events", "PUT /events/:id"}
              /\ AnsweredNow(r) /\ events' # events) =>
             \E e \in events' :
               /\ e \notin events
               /\ e = responses'[r][1].body
               /\ e.date = args[r].date.t
               /\ e.date > local[r].now => e.status = "upcoming"
               /\ e.date < local[r].now => e.status = "past"
               /\ e.status \in {"upcoming", "past"}
      /\ \A r1, r2 \in Reqs :
           (Written(r1) /\ Written(r2)
              /\ args[r1].date = args[r2].date
              /\ local[r1].now = local[r2].now) =>
             Answer(r1).body.status = Answer(r2).body.status
    ]_vars

\* An upcoming event is updated, after the clock has passed its new date, and
\* is stored as past; a POST stored an upcoming event.
C2_Witness ==
  \E r1, r2 \in Reqs :
    /\ kind[r1] = "POST /events" /\ Written(r1)
    /\ args[r1].date.t > local[r1].now /\ Answer(r1).body.status = "upcoming"
    /\ kind[r2] = "PUT /events/:id" /\ Written(r2)
    /\ args[r2].date.t < local[r2].now /\ Answer(r2).body.status = "past"
    /\ args[r2].id = Answer(r1).body.id
    /\ Answer(r2).body \in events

\* C5: DELETE /events/:id with an id of no stored event leaves every event and
\* every user as it is and, when the store call resolves, is answered 404
\* {message: 'Event not found'}; with the id of a stored event it removes that
\* event and nothing else and is answered 200 with a message.
C5_DeleteFrame ==
  [][ \A r \in Reqs :
        (kind[r] = "DELETE /events/:id" /\ AnsweredNow(r)) =>
          LET found == FindById(events, args[r].id)
              resp == responses'[r][1]
          IN  /\ responses'[r] = <<resp>>
              /\ users' = users
              /\ found = {} => events' = events
              /\ (found = {} /\ ~failed'[r]) =>
                   resp = Response(404, Message("Event not found"))
              /\ (found # {} /\ ~failed'[r]) =>
                   /\ events' = {e \in events : e.id # args[r].id}
                   /\ Cardinality(events') = Cardinality(events) - 1
                   /\ resp.status = 200
                   /\ DOMAIN resp.body = {"message"}
    ]_vars

\* One DELETE found nothing and was answered 404; another removed an event of
\* a store that still holds an event.
C5_Witness ==
  \E r1, r2 \in Reqs :
    /\ kind[r1] = "DELETE /events/:id" /\ Answered(r1) /\ Answer(r1).status = 404
    /\ kind[r2] = "DELETE /events/:id" /\ Answered(r2) /\ Answer(r2).status = 200
    /\ events # {}

\* C6: GET /events starts one count query per event found, all at once, and
\* sends its 200 only when every one of them has resolved, each count at the
\* index of its event whatever the order of completion; when a query rejects
\* the request has exactly one answer, the 500 {message: 'Server error'}, and
\* no list is sent.
C6_FanOut ==
  \A r \in Reqs :
    kind[r] = "GET /events" =>
      LET l == local[r]
      IN  /\ Len(responses[r]) <= 1
          /\ (pc[r] = "counts" \/ l.order # <<>>) =>
               issued[r] = 1 + Len(l.snapshot)
          /\ (pc[r] = "counts" /\ l.order = <<>>) =>
               l.pending = DOMAIN l.snapshot
          /\ (Answered(r) /\ Answer(r).status = 200) =>
               /\ ~failed[r]
               /\ l.pending = {}
               /\ DOMAIN Answer(r).body = DOMAIN l.snapshot
               /\ \A i \in DOMAIN l.snapshot :
                    /\ Answer(r).body[i].id = l.snapshot[i].id
                    /\ Answer(r).body[i].title = l.snapshot[i].title
                    /\ Answer(r).body[i].date = l.snapshot[i].date
                    /\ Answer(r).body[i].status = l.snapshot[i].status
                    /\ Answer(r).body[i].registrations = l.returned[i]
          /\ failed[r] => responses[r] = <<Response(500, Message("Server error"))>>
          /\ (~failed[r] /\ l.pending # {}) => responses[r] = <<>>

\* A 200 whose second count query resolved before the first, the two with
\* different counts.
C6_Witness ==
  \E r \in Reqs :
    /\ kind[r] = "GET /events" /\ Answered(r) /\ Answer(r).status = 200
    /\ local[r].order = <<2, 1>>
    /\ local[r].returned[1] # local[r].returned[2]

\* The number of registrants of an event document.
Registrants(e) == IF e.registrations.has THEN Len(e.registrations.list) ELSE 0

\* C9 as stated: the registrations value of each event of a 200 of GET /events
\* is 0 or 1, 1 when the event exists when its count query runs and 0 when a
\* DELETE removed it before, and is never the number of the event's registrants.
C9_NeverTheRegistrants ==
  \A r \in Reqs :
    (kind[r] = "GET /events" /\ Answered(r) /\ Answer(r).status = 200) =>
      \A i \in DOMAIN local[r].snapshot :
        /\ Answer(r).body[i].registrations \in {0, 1}
        /\ Answer(r).body[i].registrations =
             (IF local[r].existed[i] THEN 1 ELSE 0)
        /\ Answer(r).body[i].registrations # Registrants(local[r].snapshot[i])

\* C9, amended: the registrations value of each event of a 200 of GET /events
\* is 0 or 1 whatever the number of the event's registrants: 1 when the event
\* exists when its count query runs, 0 when a DELETE /events/:id removed it
\* between the find and its count query.
C9_ZeroOrOne ==
  \A r \in Reqs :
    (kind[r] = "GET /events" /\ Answered(r) /\ Answer(r).status = 200) =>
      \A i \in DOMAIN local[r].snapshot :
        LET n == Answer(r).body[i].registrations
        IN  /\ n \in {0, 1}
            /\ n = (IF local[r].existed[i] THEN 1 ELSE 0)
            /\ n = 0 =>
                 \E d \in Reqs \ {r} :
                   /\ kind[d] = "DELETE /events/:id"
                   /\ args[d].id = local[r].snapshot[i].id
                   /\ Answered(d) /\ Answer(d).status = 200

\* A 200 with 1 for an event of MaxRegs registrants and 0 for an event that a
\* DELETE removed after the find.
C9_Witness ==
  \E r \in Reqs :
    /\ kind[r] = "GET /events" /\ Answered(r) /\ Answer(r).status = 200
    /\ \E i, j \in DOMAIN local[r].snapshot :
         /\ Answer(r).body[i].registrations = 1
         /\ Registrants(local[r].snapshot[i]) = MaxRegs
         /\ Answer(r).body[j].registrations = 0

\* C7: a 200 of GET /events/all lists the stored events, count being their
\* number and each registrationCount the length of the event's registrations
\* (0 without the array); an event that POST /events created is listed with
\* registrationCount 0 and registrations [].
C7_RoundTrip ==
  [][ \A r \in Reqs :
        (kind[r] = "GET /events/all" /\ AnsweredNow(r) /\ ~failed'[r]) =>
          LET resp == responses'[r][1]
              data == resp.body.data
          IN  /\ resp.status = 200
              /\ resp.body.success = TRUE
              /\ resp.body.count = Len(data)
              /\ Len(data) = Cardinality(events)
              /\ {data[i].id : i \in DOMAIN data} = {e.id : e \in events}
              /\ \A i \in DOMAIN data :
                   /\ data[i].registrations.has =>
                        data[i].registrationCount = Len(data[i].registrations.list)
                   /\ ~data[i].registrations.has => data[i].registrationCount = 0
                   /\ data[i].id \in created =>
                        /\ data[i].registrationCount = 0
                        /\ data[i].registrations.has
                        /\ Len(data[i].registrations.list) = 0
    ]_vars

\* A 200 that lists an event POST /events created, with count 0, beside an
\* event without the registrations array.
C7_Witness ==
  \E r \in Reqs :
    /\ kind[r] = "GET /events/all" /\ Answered(r) /\ Answer(r).status = 200
    /\ \E i, j \in DOMAIN Answer(r).body.data :
         /\ Answer(r).body.data[i].id \in created
         /\ Answer(r).body.data[i].registrationCount = 0
         /\ ~Answer(r).body.data[j].registrations.has

\* C8: a request never has more than one response; once a store call of it
\* has failed it issues no further store call, in the failing step or later,
\* and its one response is a 500; a response, the 404 and the 400 included, is
\* never followed by another.
C8_FailureIsTerminal ==
  [][ \A r \in Reqs :
        /\ Len(responses'[r]) <= 1
        /\ failed[r] => failed'[r]
        /\ failed'[r] =>
             /\ issued'[r] = issued[r]
             /\ Len(responses'[r]) = 1
             /\ responses'[r][1].status = 500
        /\ responses[r] # <<>> => responses'[r] = responses[r]
        /\ pc[r] = "done" => (pc'[r] = "done" /\ issued'[r] = issued[r])
    ]_vars

\* GET /stats, whose third store call failed after two that resolved, is
\* answered 500, and a PUT /events/:id was answered 404.
C8_Witness ==
  \E r1, r2 \in Reqs :
    /\ kind[r1] = "GET /stats" /\ failed[r1] /\ issued[r1] = 3
    /\ pc[r1] = "done" /\ Answered(r1) /\ Answer(r1).status = 500
    /\ kind[r2] = "PUT /events/:id" /\ pc[r2] = "done"
    /\ Answered(r2) /\ Answer(r2).status = 404

\* C10: GET /stats issues three store calls one after the other: the user
\* count, the count of the events with date > now, the event count.  When the
\* store has applied no write since the first resolved, the 200 holds the
\* three counts of the store as it is (so upcomingEvents <= totalEvents).
C10_StatsCounts ==
  \A r \in Reqs :
    kind[r] = "GET /stats" =>
      /\ pc[r] = "members" => issued[r] = 1
      /\ pc[r] = "upcoming" => issued[r] = 2
      /\ pc[r] = "total" => issued[r] = 3
      /\ (Answered(r) /\ Answer(r).status = 200) =>
           /\ issued[r] = 3
           /\ DOMAIN Answer(r).body =
                {"totalMembers", "totalEvents", "upcomingEvents"}
           /\ local[r].ver = writes =>
                /\ Answer(r).body.totalMembers = Cardinality(users)
                /\ Answer(r).body.totalEvents = Cardinality(events)
                /\ Answer(r).body.upcomingEvents =
                     Cardinality({e \in events : e.date > local[r].now})
                /\ Answer(r).body.upcomingEvents <= Answer(r).body.totalEvents

\* With a write of another request between the queries: a 200 with more
\* upcoming events than events, the counts of no store state.
C10_Witness ==
  \E r \in Reqs :
    /\ kind[r] = "GET /stats" /\ Answered(r) /\ Answer(r).status = 200
    /\ local[r].ver # writes
    /\ Answer(r).body.upcomingEvents > Answer(r).body.totalEvents

\* A query value that is a positive integer: absent (the default applies), or
\* a string of decimal digits that is not zero.
PositiveInteger(q) ==
  ~q.has \/ (/\ q.str # <<>>
             /\ \A i \in 1..Len(q.str) : IsDigit(q.str[i])
             /\ ToNumber(q.str) > 0)

\* C3: GET /users with positive integer page and limit, the store unchanged
\* during the request: total is the number of matching users whatever page and
\* limit, totalPages is ceil(total / limit), and the users returned are those
\* at positions (page-1)*limit+1 .. min(page*limit, total) of the matching
\* users by creation time, latest first: at most limit users, none for a page
\* past the end.
C3_Pagination ==
  \A r \in Reqs :
    (/\ kind[r] = "GET /users" /\ Answered(r) /\ Answer(r).status = 200
     /\ PositiveInteger(args[r].page) /\ PositiveInteger(args[r].limit)
     /\ local[r].stable) =>
      LET P == IF args[r].page.has THEN ToNumber(args[r].page.str) ELSE 1
          L == IF args[r].limit.has THEN ToNumber(args[r].limit.str) ELSE 10
          M == Matching(users, args[r].search)
          T == Cardinality(M)
          body == Answer(r).body
          got == body.users
          last == IF P * L < T THEN P * L ELSE T
      IN  /\ body.total = T
          /\ body.page = P
          /\ body.totalPages.finite
          /\ body.totalPages.n * L >= T
          /\ (body.totalPages.n - 1) * L < T
          /\ Len(got) <= L
          /\ Len(got) = (IF (P - 1) * L >= T THEN 0 ELSE last - (P - 1) * L)
          /\ \A k \in 1..Len(got) :
               /\ "password" \notin DOMAIN got[k]
               /\ \E u \in M :
                    /\ got[k] = WithoutPassword(u)
                    /\ Cardinality({w \in M : w.createdAt > u.createdAt}) =
                         (P - 1) * L + k - 1

\* Page 2 at limit 1 of two matching users: the earlier user alone, of 2 pages.
C3_Witness ==
  \E r \in Reqs :
    /\ kind[r] = "GET /users" /\ Answered(r) /\ Answer(r).status = 200
    /\ args[r].page = Given(<<"2">>) /\ args[r].limit = Given(<<"1">>)
    /\ Answer(r).body.total = 2
    /\ Answer(r).body.totalPages.n = 2
    /\ Len(Answer(r).body.users) = 1
    /\ Answer(r).body.users[1].id = 1

\* search is, letter case apart, a substring of text.
ContainsIgnoringCase(search, text) ==
  \E k \in 1..(Len(text) - Len(search) + 1) :
    \A i \in 1..Len(search) : Lower(search[i]) = Lower(text[k + i - 1])
Selected(u, search) ==
  \/ search = <<>>
  \/ ContainsIgnoringCase(search, u.name)
  \/ ContainsIgnoringCase(search, u.email)
  \/ ContainsIgnoringCase(search, u.registration_no)

\* C4: GET /users selects a user if and only if no search string is given or
\* the search string is, letter case apart, a substring of the user's name,
\* email or registration_no, whatever characters the search string holds:
\* total counts those users, and a first page that holds them all lists them.
C4_SubstringSearch ==
  \A r \in Reqs :
    (kind[r] = "GET /users" /\ Answered(r) /\ Answer(r).status = 200) =>
      LET body == Answer(r).body
          chosen == {u \in users : Selected(u, args[r].search)}
      IN  /\ body.total = Cardinality(chosen)
          /\ (~args[r].page.has /\ ~args[r].limit.has) =>
               {body.users[k].id : k \in DOMAIN body.users} =
                 {u.id : u \in chosen}

====
